---------------------------- MODULE Spec2Model ----------------------------
(***************************************************************************)
(* A model of nifti2bids.py: the script that loads a subject mapping       *)
(* table, walks the subject folders of a source tree, resolves each        *)
(* folder name to a de-identified label, classifies every NIfTI image      *)
(* from its JSON sidecar and file name, and copies the image and its       *)
(* sidecars into a BIDS layout.                                            *)
(*                                                                         *)
(* Python strings are modelled as sequences of one-character strings, so   *)
(* that strip(), lower(), "in", "_".join, str(), int(), zfill() and        *)
(* pathlib's with_suffix() are computed character by character.            *)
(***************************************************************************)
EXTENDS Integers, Sequences, FiniteSets, TLC

VARIABLES
    mapping_df,     \* the table read at line 32: [columns, data]
    tree,           \* SOURCE_DIR: sequence of subject folders, in iterdir order
    pc,             \* position of the script
    error,          \* the uncaught exception that ended the run, or NoError
    si,             \* index of subj_dir in subject_dirs
    fi,             \* index of nii_file in nifti_files
    accession,      \* line 81
    sub_label,      \* lines 87, 92, 96
    category,       \* line 120
    bids_suffix,    \* line 120
    copied,         \* the shutil.copy2 calls of the latest iteration of line 106
    out,            \* the files under BIDS_OUTPUT_DIR
    stdout          \* the messages printed so far

vars == <<mapping_df, tree, pc, error, si, fi, accession,
          sub_label, category, bids_suffix, copied, out, stdout>>

-----------------------------------------------------------------------------
(* String literals of the script.                                          *)

\* "accession"
COL_ACCESSION == <<"a", "c", "c", "e", "s", "s", "i", "o", "n">>
\* "record_id"
COL_RECORD_ID == <<"r", "e", "c", "o", "r", "d", "_", "i", "d">>
\* "newaccession"
COL_NEWACCESSION == <<"n", "e", "w", "a", "c", "c", "e", "s", "s", "i", "o", "n">>
\* ".nii.gz"
EXT_NII_GZ == <<".", "n", "i", "i", ".", "g", "z">>
\* ".json"
EXT_JSON == <<".", "j", "s", "o", "n">>
\* ".bval"
EXT_BVAL == <<".", "b", "v", "a", "l">>
\* ".bvec"
EXT_BVEC == <<".", "b", "v", "e", "c">>
\* "sub-"
PFX_SUB == <<"s", "u", "b", "-">>
\* "sub-RID"
PFX_SUB_RID == <<"s", "u", "b", "-", "R", "I", "D">>
\* "ses-"
PFX_SES == <<"s", "e", "s", "-">>
\* "nan", what str() gives for a missing cell
STR_NAN == <<"n", "a", "n">>
\* "research", line 27
SESSION_LABEL == <<"r", "e", "s", "e", "a", "r", "c", "h">>

\* the width given to zfill at line 95
PadWidth == 4

-----------------------------------------------------------------------------
(* Python's string operations.                                             *)

Whitespace == {" ", "\t"}

Digits == <<"0", "1", "2", "3", "4", "5", "6", "7", "8", "9">>

UpperCase == <<"A", "B", "C", "D", "E", "F", "G", "H", "I", "J", "K", "L", "M",
               "N", "O", "P", "Q", "R", "S", "T", "U", "V", "W", "X", "Y", "Z">>

LowerCase == <<"a", "b", "c", "d", "e", "f", "g", "h", "i", "j", "k", "l", "m",
               "n", "o", "p", "q", "r", "s", "t", "u", "v", "w", "x", "y", "z">>

\* str.lstrip()
RECURSIVE LStrip(_)
LStrip(s) ==
    IF s # <<>> /\ Head(s) \in Whitespace THEN LStrip(Tail(s)) ELSE s

\* str.rstrip()
RECURSIVE RStrip(_)
RStrip(s) ==
    IF s # <<>> /\ s[Len(s)] \in Whitespace
    THEN RStrip(SubSeq(s, 1, Len(s) - 1))
    ELSE s

\* str.strip()
Strip(s) == RStrip(LStrip(s))

LowerChar(c) ==
    IF \E k \in 1..26 : UpperCase[k] = c
    THEN LowerCase[CHOOSE k \in 1..26 : UpperCase[k] = c]
    ELSE c

\* str.lower()
Lower(s) == [i \in 1..Len(s) |-> LowerChar(s[i])]

\* t in s
Contains(s, t) ==
    \E i \in 0..(Len(s) - Len(t)) : SubSeq(s, i + 1, i + Len(t)) = t

\* sep.join(parts)
RECURSIVE Join(_, _)
Join(sep, parts) ==
    IF parts = <<>> THEN <<>>
    ELSE IF Len(parts) = 1 THEN parts[1]
    ELSE parts[1] \o sep \o Join(sep, Tail(parts))

\* the characters of a str, as "_".join iterates over them
Chars(s) == [i \in 1..Len(s) |-> <<s[i]>>]

\* str(n) of a natural number
RECURSIVE NatStr(_)
NatStr(n) ==
    IF n < 10 THEN <<Digits[n + 1]>>
    ELSE NatStr(n \div 10) \o <<Digits[(n % 10) + 1]>>

\* str(n) of an int
IntStr(n) == IF n < 0 THEN <<"-">> \o NatStr(-n) ELSE NatStr(n)

Zeros(k) == [i \in 1..k |-> "0"]

\* str.zfill(width): pads on the left, after a leading sign; never truncates
Zfill(s, width) ==
    IF Len(s) >= width THEN s
    ELSE IF s # <<>> /\ s[1] \in {"+", "-"}
         THEN <<s[1]>> \o Zeros(width - Len(s)) \o Tail(s)
         ELSE Zeros(width - Len(s)) \o s

IsDigit(c) == \E k \in 1..10 : Digits[k] = c

DigitValue(c) == (CHOOSE k \in 1..10 : Digits[k] = c) - 1

RECURSIVE DigitsValue(_)
DigitsValue(s) ==
    IF s = <<>> THEN 0
    ELSE 10 * DigitsValue(SubSeq(s, 1, Len(s) - 1)) + DigitValue(s[Len(s)])

Unsigned(s) == IF s # <<>> /\ s[1] \in {"+", "-"} THEN Tail(s) ELSE s

\* whether int(s) accepts the str s: optional whitespace around an optional
\* sign and at least one decimal digit
IsIntLiteral(s) ==
    LET u == Unsigned(Strip(s))
    IN  u # <<>> /\ \A i \in 1..Len(u) : IsDigit(u[i])

\* int(s) of an accepted str
ParseInt(s) ==
    LET t == Strip(s)
        v == DigitsValue(Unsigned(t))
    IN  IF t[1] = "-" THEN -v ELSE v

-----------------------------------------------------------------------------
(* pathlib.                                                                *)

\* the last index of c in s, 0 when absent (str.rfind, one-based)
RFind(s, c) ==
    IF \E i \in 1..Len(s) : s[i] = c
    THEN CHOOSE i \in 1..Len(s) : s[i] = c /\ \A j \in (i + 1)..Len(s) : s[j] # c
    ELSE 0

\* PurePath.suffix of a file name: from the last dot, unless the dot is the
\* first or the last character
Suffix(name) ==
    LET i == RFind(name, ".")
    IN  IF 1 < i /\ i < Len(name) THEN SubSeq(name, i, Len(name)) ELSE <<>>

\* PurePath.with_suffix on a file name: replaces the existing suffix
WithSuffix(name, suffix) ==
    LET old == Suffix(name)
    IN  IF old = <<>> THEN name \o suffix
        ELSE SubSeq(name, 1, Len(name) - Len(old)) \o suffix

\* str.endswith
EndsWith(s, t) ==
    Len(s) >= Len(t) /\ SubSeq(s, Len(s) - Len(t) + 1, Len(s)) = t

-----------------------------------------------------------------------------
(* The literals of get_bids_category.                                      *)

\* "func"
S_func == <<"f", "u", "n", "c">>
\* "anat"
S_anat == <<"a", "n", "a", "t">>
\* "dwi"
S_dwi == <<"d", "w", "i">>
\* "fmap"
S_fmap == <<"f", "m", "a", "p">>
\* "task-rest_bold"
S_task_rest_bold == <<"t", "a", "s", "k", "-", "r", "e", "s", "t", "_", "b", "o", "l", "d">>
\* "acq-axial_T2w"
S_acq_axial_T2w == <<"a", "c", "q", "-", "a", "x", "i", "a", "l", "_", "T", "2", "w">>
\* "acq-hippocampalIR_T1w"
S_acq_hippocampalIR_T1w == <<"a", "c", "q", "-", "h", "i", "p", "p", "o", "c", "a", "m", "p", "a", "l", "I", "R", "_", "T", "1", "w">>
\* "acq-hippcor_T2w"
S_acq_hippcor_T2w == <<"a", "c", "q", "-", "h", "i", "p", "p", "c", "o", "r", "_", "T", "2", "w">>
\* "FLAIR"
S_FLAIR == <<"F", "L", "A", "I", "R">>
\* "acq-mprage_T1w"
S_acq_mprage_T1w == <<"a", "c", "q", "-", "m", "p", "r", "a", "g", "e", "_", "T", "1", "w">>
\* "acq-topup_dwi"
S_acq_topup_dwi == <<"a", "c", "q", "-", "t", "o", "p", "u", "p", "_", "d", "w", "i">>
\* "ADC"
S_ADC == <<"A", "D", "C">>
\* "trace"
S_trace == <<"t", "r", "a", "c", "e">>
\* "FA"
S_FA == <<"F", "A">>
\* "BOLD"
S_BOLD == <<"B", "O", "L", "D">>
\* "ORIGINAL"
S_ORIGINAL == <<"O", "R", "I", "G", "I", "N", "A", "L">>
\* "DIS2D"
S_DIS2D == <<"D", "I", "S", "2", "D">>
\* "AXIAL_T2"
S_AXIAL_T2 == <<"A", "X", "I", "A", "L", "_", "T", "2">>
\* "SWI"
S_SWI == <<"S", "W", "I">>
\* "COR_T1_IR"
S_COR_T1_IR == <<"C", "O", "R", "_", "T", "1", "_", "I", "R">>
\* "COR_T2"
S_COR_T2 == <<"C", "O", "R", "_", "T", "2">>
\* "T2_FLAIR"
S_T2_FLAIR == <<"T", "2", "_", "F", "L", "A", "I", "R">>
\* "SAG_T1_MPRAGE"
S_SAG_T1_MPRAGE == <<"S", "A", "G", "_", "T", "1", "_", "M", "P", "R", "A", "G", "E">>
\* "DTI"
S_DTI == <<"D", "T", "I">>
\* "TOPUP"
S_TOPUP == <<"T", "O", "P", "U", "P">>
\* "DERIVED"
S_DERIVED == <<"D", "E", "R", "I", "V", "E", "D">>
\* "TRACEW"
S_TRACEW == <<"T", "R", "A", "C", "E", "W">>
\* "_ses-"
S__ses_ == <<"_", "s", "e", "s", "-">>
\* "_"
S__ == <<"_">>

\* Python's None; no str is equal to it
None == <<"None">>

-----------------------------------------------------------------------------
(* Values.                                                                 *)

\* A cell of the table: a missing value (NaN), a number or a str.
NaNCell == [t |-> "nan", n |-> 0, s |-> <<>>]
IntCell(k) == [t |-> "int", n |-> k, s |-> <<>>]
StrCell(x) == [t |-> "str", n |-> 0, s |-> x]

\* pd.isna(cell)
IsNa(cell) == cell.t = "nan"

\* str(cell)
PyStr(cell) ==
    IF cell.t = "nan" THEN STR_NAN
    ELSE IF cell.t = "int" THEN IntStr(cell.n)
    ELSE cell.s

\* whether int(cell) returns; it raises ValueError for a str that is no
\* integer literal and for NaN
IntAccepts(cell) ==
    \/ cell.t = "int"
    \/ cell.t = "str" /\ IsIntLiteral(cell.s)

\* int(cell)
PyInt(cell) == IF cell.t = "int" THEN cell.n ELSE ParseInt(cell.s)

\* The value of the key ImageType of a sidecar: absent, a list of str, a
\* str, null, or a list holding something that is no str.
AbsentIT == [t |-> "absent", v |-> <<>>]
ListIT(l) == [t |-> "list", v |-> l]
StrIT(x) == [t |-> "str", v |-> <<x>>]
NullIT == [t |-> "null", v |-> <<>>]
NumListIT == [t |-> "numlist", v |-> <<>>]

\* What a sidecar file holds: a JSON object, another JSON value, or text
\* json.load cannot read.
ObjectJson(it) == [kind |-> "object", it |-> it]
OtherJson == [kind |-> "other", it |-> AbsentIT]
InvalidJson == [kind |-> "invalid", it |-> AbsentIT]
NoJson == [kind |-> "none", it |-> AbsentIT]

NoError == [type |-> "none", line |-> 0]
Raised(type, line) == [type |-> type, line |-> line]

-----------------------------------------------------------------------------
(* get_bids_category, lines 43-72.                                         *)

Returned(cat, suffix) == [exc |-> "none", category |-> cat, suffix |-> suffix]
Raises(exc) == [exc |-> exc, category |-> None, suffix |-> None]

\* line 45: "_".join(json_info.get("ImageType", []))
JoinedImageType(it) ==
    IF it.t = "str" THEN Join(S__, Chars(it.v[1])) ELSE Join(S__, it.v)

\* the chain with the generic diffusion rule tested before the topup rule
RuleChainDwiFirst(fname, imagetype) ==
    IF Contains(fname, S_BOLD) /\ Contains(imagetype, S_ORIGINAL)
       /\ Contains(imagetype, S_DIS2D)
    THEN Returned(S_func, S_task_rest_bold)
    ELSE IF Contains(fname, S_AXIAL_T2) /\ ~Contains(fname, S_SWI)
            /\ Contains(imagetype, S_ORIGINAL)
    THEN Returned(S_anat, S_acq_axial_T2w)
    ELSE IF Contains(fname, S_COR_T1_IR) /\ Contains(imagetype, S_ORIGINAL)
    THEN Returned(S_anat, S_acq_hippocampalIR_T1w)
    ELSE IF Contains(fname, S_COR_T2) /\ Contains(imagetype, S_ORIGINAL)
    THEN Returned(S_anat, S_acq_hippcor_T2w)
    ELSE IF Contains(fname, S_T2_FLAIR) /\ Contains(imagetype, S_ORIGINAL)
    THEN Returned(S_anat, S_FLAIR)
    ELSE IF Contains(fname, S_SAG_T1_MPRAGE) /\ Contains(imagetype, S_ORIGINAL)
    THEN Returned(S_anat, S_acq_mprage_T1w)
    ELSE IF Contains(fname, S_DTI) /\ Contains(imagetype, S_ORIGINAL)
    THEN Returned(S_dwi, S_dwi)
    ELSE IF Contains(fname, S_DTI) /\ Contains(fname, S_TOPUP)
            /\ Contains(imagetype, S_ORIGINAL)
    THEN Returned(S_fmap, S_acq_topup_dwi)
    ELSE IF Contains(fname, S_DTI) /\ Contains(imagetype, S_DERIVED)
            /\ Contains(imagetype, S_ADC)
    THEN Returned(S_dwi, S_ADC)
    ELSE IF Contains(fname, S_DTI) /\ Contains(imagetype, S_DERIVED)
            /\ Contains(imagetype, S_TRACEW)
    THEN Returned(S_dwi, S_trace)
    ELSE IF Contains(fname, S_DTI) /\ Contains(imagetype, S_DERIVED)
            /\ Contains(imagetype, S_FA)
    THEN Returned(S_dwi, S_FA)
    ELSE Returned(None, None)

\* lines 49-72: the chain of conditionals
RuleChain(fname, imagetype) ==
    IF Contains(fname, S_BOLD) /\ Contains(imagetype, S_ORIGINAL)
       /\ Contains(imagetype, S_DIS2D)
    THEN Returned(S_func, S_task_rest_bold)
    ELSE IF Contains(fname, S_AXIAL_T2) /\ ~Contains(fname, S_SWI)
            /\ Contains(imagetype, S_ORIGINAL)
    THEN Returned(S_anat, S_acq_axial_T2w)
    ELSE IF Contains(fname, S_COR_T1_IR) /\ Contains(imagetype, S_ORIGINAL)
    THEN Returned(S_anat, S_acq_hippocampalIR_T1w)
    ELSE IF Contains(fname, S_COR_T2) /\ Contains(imagetype, S_ORIGINAL)
    THEN Returned(S_anat, S_acq_hippcor_T2w)
    ELSE IF Contains(fname, S_T2_FLAIR) /\ Contains(imagetype, S_ORIGINAL)
    THEN Returned(S_anat, S_FLAIR)
    ELSE IF Contains(fname, S_SAG_T1_MPRAGE) /\ Contains(imagetype, S_ORIGINAL)
    THEN Returned(S_anat, S_acq_mprage_T1w)
    ELSE IF Contains(fname, S_DTI) /\ Contains(fname, S_TOPUP)
            /\ Contains(imagetype, S_ORIGINAL)
    THEN Returned(S_fmap, S_acq_topup_dwi)
    ELSE IF Contains(fname, S_DTI) /\ Contains(imagetype, S_ORIGINAL)
    THEN Returned(S_dwi, S_dwi)
    ELSE IF Contains(fname, S_DTI) /\ Contains(imagetype, S_DERIVED)
            /\ Contains(imagetype, S_ADC)
    THEN Returned(S_dwi, S_ADC)
    ELSE IF Contains(fname, S_DTI) /\ Contains(imagetype, S_DERIVED)
            /\ Contains(imagetype, S_TRACEW)
    THEN Returned(S_dwi, S_trace)
    ELSE IF Contains(fname, S_DTI) /\ Contains(imagetype, S_DERIVED)
            /\ Contains(imagetype, S_FA)
    THEN Returned(S_dwi, S_FA)
    ELSE Returned(None, None)

\* json_info.get raises AttributeError when the sidecar holds no JSON object
\* (line 44); "_".join raises TypeError for null and for a list that holds
\* something other than str (line 45)
get_bids_category(json_info, filename) ==
    IF json_info.kind # "object" THEN Raises("AttributeError")
    ELSE IF json_info.it.t \in {"null", "numlist"} THEN Raises("TypeError")
    ELSE RuleChain(filename, JoinedImageType(json_info.it))

-----------------------------------------------------------------------------
(* The mapping table, lines 32-36 and 84-90.                               *)

\* line 33: mapping_df.columns.str.strip().str.lower()
NormalizedColumns(columns) ==
    [i \in 1..Len(columns) |-> Lower(Strip(columns[i]))]

HasColumn(df, name) == \E i \in 1..Len(df.columns) : df.columns[i] = name

\* line 35: {"accession", "record_id"}.issubset(mapping_df.columns)
RequiredColumnsPresent(df) ==
    HasColumn(df, COL_ACCESSION) /\ HasColumn(df, COL_RECORD_ID)

ColumnIndex(df, name) ==
    CHOOSE i \in 1..Len(df.columns) :
        df.columns[i] = name /\ \A j \in 1..(i - 1) : df.columns[j] # name

\* the column that line 84 indexes
LookupColumn == COL_NEWACCESSION

\* the comparison without trimming the table's side
RowMatchesUntrimmed(df, row, acc) ==
    PyStr(row[ColumnIndex(df, LookupColumn)]) = acc

\* line 84: the rows whose stringified, stripped lookup cell equals the
\* accession, in table order
RowMatches(df, row, acc) ==
    Strip(PyStr(row[ColumnIndex(df, LookupColumn)])) = acc

map_row(df, acc) == SelectSeq(df.data, LAMBDA row : RowMatches(df, row, acc))

\* the record_id of the last matching row
LastRecordId(df, rows) == rows[Len(rows)][ColumnIndex(df, COL_RECORD_ID)]

\* line 90: map_row["record_id"].values[0]
FirstRecordId(df, rows) == rows[1][ColumnIndex(df, COL_RECORD_ID)]

\* line 91: pd.isna(record_id) or str(record_id).strip() == ""
Unusable(record_id) == IsNa(record_id) \/ Strip(PyStr(record_id)) = <<>>

\* the label without the padding
RidLabelNoPad(record_id) == PFX_SUB_RID \o IntStr(PyInt(record_id))

\* lines 95-96
RidLabel(record_id) == PFX_SUB_RID \o Zfill(IntStr(PyInt(record_id)), PadWidth)

\* lines 87 and 92
FallbackLabel(acc) == PFX_SUB \o acc

-----------------------------------------------------------------------------
(* The source tree and the output tree.                                    *)

\* A subject folder is [name, entries]; an entry is [name, json], json
\* being what the file holds when it is read as a sidecar.
Exists(subj, fname) == \E i \in 1..Len(subj.entries) : subj.entries[i].name = fname

Content(subj, fname) ==
    subj.entries[CHOOSE i \in 1..Len(subj.entries) : subj.entries[i].name = fname].json

\* line 101: subj_dir.rglob("*.nii.gz")
nifti_files(subj) ==
    LET imgs == SelectSeq(subj.entries, LAMBDA e : EndsWith(e.name, EXT_NII_GZ))
    IN  [i \in 1..Len(imgs) |-> imgs[i].name]

\* lines 107, 139, 140: nii_file.with_suffix("").with_suffix(ext)
SidecarName(nii, ext) == WithSuffix(WithSuffix(nii, <<>>), ext)

\* line 126
dest_dir(label, session, cat) == <<label, PFX_SES \o session, cat>>

\* line 129: the name of dest_base
dest_base(label, session, suffix) == label \o S__ses_ \o session \o S__ \o suffix

\* lines 132, 133, 142, 143: dest_base.with_suffix(ext)
DestPath(label, session, cat, suffix, ext) ==
    Append(dest_dir(label, session, cat),
           WithSuffix(dest_base(label, session, suffix), ext))

Copy(dir, fname, nii, dst) == [src |-> [dir |-> dir, file |-> fname, image |-> nii], dst |-> dst]

\* shutil.copy2: the destination is created or overwritten
RECURSIVE CopyAll(_, _)
CopyAll(fs, copies) ==
    IF copies = <<>> THEN fs
    ELSE CopyAll({f \in fs : f.dst # copies[1].dst} \cup {copies[1]}, Tail(copies))

\* the copy2 calls with the gradient tables copied for every suffix that
\* ends in "dwi"
CopiesForAnyDwi(subj, nii, label, session, cat, suffix) ==
    LET json_file == SidecarName(nii, EXT_JSON)
        bval_file == SidecarName(nii, EXT_BVAL)
        bvec_file == SidecarName(nii, EXT_BVEC)
        base == <<Copy(subj.name, nii, nii, DestPath(label, session, cat, suffix, EXT_NII_GZ)),
                  Copy(subj.name, json_file, nii, DestPath(label, session, cat, suffix, EXT_JSON))>>
    IN  IF EndsWith(suffix, S_dwi) /\ Exists(subj, bval_file) /\ Exists(subj, bvec_file)
        THEN base \o
             <<Copy(subj.name, bval_file, nii, DestPath(label, session, cat, suffix, EXT_BVAL)),
               Copy(subj.name, bvec_file, nii, DestPath(label, session, cat, suffix, EXT_BVEC))>>
        ELSE base

\* lines 131-143: the copy2 calls of one matched image
CopiesFor(subj, nii, label, session, cat, suffix) ==
    LET json_file == SidecarName(nii, EXT_JSON)
        bval_file == SidecarName(nii, EXT_BVAL)
        bvec_file == SidecarName(nii, EXT_BVEC)
        base == <<Copy(subj.name, nii, nii, DestPath(label, session, cat, suffix, EXT_NII_GZ)),
                  Copy(subj.name, json_file, nii, DestPath(label, session, cat, suffix, EXT_JSON))>>
    IN  IF suffix = S_dwi /\ Exists(subj, bval_file) /\ Exists(subj, bvec_file)
        THEN base \o
             <<Copy(subj.name, bval_file, nii, DestPath(label, session, cat, suffix, EXT_BVAL)),
               Copy(subj.name, bvec_file, nii, DestPath(label, session, cat, suffix, EXT_BVEC))>>
        ELSE base

Msg(line, arg) == [line |-> line, arg |-> arg]

-----------------------------------------------------------------------------
(* The script.                                                             *)

\* lines 33-38
LoadMapping ==
    /\ pc = "load"
    /\ LET df == [mapping_df EXCEPT !.columns = NormalizedColumns(mapping_df.columns)]
       IN  /\ mapping_df' = df
           /\ IF RequiredColumnsPresent(df)
              THEN /\ pc' = "scan"
                   /\ error' = error
                   /\ stdout' = Append(stdout, Msg(38, <<>>))
              ELSE /\ pc' = "crashed"
                   /\ error' = Raised("ValueError", 36)
                   /\ stdout' = stdout
    /\ UNCHANGED <<tree, si, fi, accession, sub_label, category,
                   bids_suffix, copied, out>>

\* lines 77-78
ListSubjects ==
    /\ pc = "scan"
    /\ pc' = "subject"
    /\ si' = 1
    /\ stdout' = Append(stdout, Msg(78, <<>>))
    /\ UNCHANGED <<mapping_df, tree, error, fi, accession, sub_label,
                   category, bids_suffix, copied, out>>

\* lines 80-96
ResolveSubject ==
    /\ pc = "subject"
    /\ si <= Len(tree)
    /\ LET acc == Strip(tree[si].name)
       IN  /\ accession' = acc
           /\ IF ~HasColumn(mapping_df, LookupColumn)
              THEN /\ pc' = "crashed"
                   /\ error' = Raised("KeyError", 84)
                   /\ UNCHANGED <<sub_label, stdout>>
              ELSE LET rows == map_row(mapping_df, acc)
                   IN  IF rows = <<>>
                       THEN /\ sub_label' = FallbackLabel(acc)
                            /\ stdout' = Append(stdout, Msg(88, acc))
                            /\ pc' = "find"
                            /\ error' = error
                       ELSE LET record_id == FirstRecordId(mapping_df, rows)
                            IN  IF Unusable(record_id)
                                THEN /\ sub_label' = FallbackLabel(acc)
                                     /\ stdout' = Append(stdout, Msg(93, acc))
                                     /\ pc' = "find"
                                     /\ error' = error
                                ELSE IF IntAccepts(record_id)
                                THEN /\ sub_label' = RidLabel(record_id)
                                     /\ pc' = "find"
                                     /\ UNCHANGED <<error, stdout>>
                                ELSE /\ pc' = "crashed"
                                     /\ error' = Raised("ValueError", 95)
                                     /\ UNCHANGED <<sub_label, stdout>>
    /\ UNCHANGED <<mapping_df, tree, si, fi, category, bids_suffix,
                   copied, out>>

\* lines 101-104
FindFiles ==
    /\ pc = "find"
    /\ IF nifti_files(tree[si]) = <<>>
       THEN /\ stdout' = Append(stdout, Msg(103, accession))
            /\ si' = si + 1
            /\ pc' = "subject"
            /\ fi' = fi
       ELSE /\ fi' = 1
            /\ pc' = "file"
            /\ UNCHANGED <<si, stdout>>
    /\ UNCHANGED <<mapping_df, tree, error, accession, sub_label,
                   category, bids_suffix, copied, out>>

\* the end of one iteration of the loop of line 106: the next file, or the
\* next subject after the last file
Continue ==
    IF fi < Len(nifti_files(tree[si]))
    THEN fi' = fi + 1 /\ pc' = "file" /\ si' = si
    ELSE fi' = fi /\ pc' = "subject" /\ si' = si + 1

\* lines 106-145, one iteration
ProcessFile ==
    /\ pc = "file"
    /\ LET subj == tree[si]
           nii == nifti_files(subj)[fi]
           json_file == SidecarName(nii, EXT_JSON)
       IN  IF ~Exists(subj, json_file)
           THEN /\ stdout' = Append(stdout, Msg(109, nii))
                /\ Continue
                /\ copied' = <<>>
                /\ UNCHANGED <<error, category, bids_suffix, out>>
           ELSE IF Content(subj, json_file).kind = "invalid"
           THEN /\ stdout' = Append(stdout, Msg(117, json_file))
                /\ Continue
                /\ copied' = <<>>
                /\ UNCHANGED <<error, category, bids_suffix, out>>
           ELSE LET r == get_bids_category(Content(subj, json_file), nii)
                IN  IF r.exc # "none"
                    THEN /\ pc' = "crashed"
                         /\ error' = Raised(r.exc, 120)
                         /\ UNCHANGED <<si, fi, category, bids_suffix, copied, out, stdout>>
                    ELSE /\ category' = r.category
                         /\ bids_suffix' = r.suffix
                         /\ error' = error
                         /\ Continue
                         /\ IF r.category = None
                            THEN /\ stdout' = Append(stdout, Msg(122, nii))
                                 /\ copied' = <<>>
                                 /\ out' = out
                            ELSE LET copies == CopiesFor(subj, nii, sub_label,
                                                         SESSION_LABEL, r.category, r.suffix)
                                 IN  /\ copied' = copies
                                     /\ out' = CopyAll(out, copies)
                                     /\ stdout' = Append(stdout, Msg(145, nii))
    /\ UNCHANGED <<mapping_df, tree, accession, sub_label>>

\* lines 147-148
Finish ==
    /\ pc = "subject"
    /\ si > Len(tree)
    /\ pc' = "done"
    /\ stdout' = Append(stdout, Msg(147, <<>>))
    /\ UNCHANGED <<mapping_df, tree, error, si, fi, accession,
                   sub_label, category, bids_suffix, copied, out>>

Next ==
    \/ LoadMapping
    \/ ListSubjects
    \/ ResolveSubject
    \/ FindFiles
    \/ ProcessFile
    \/ Finish

-----------------------------------------------------------------------------
(* Inputs: the mapping tables and source trees the runs are checked on.    *)

\* the most rows a mapping table has
MaxRows == 2
\* the most subject folders SOURCE_DIR has
MaxSubjects == 2
\* the most images the subject folders hold together
MaxFiles == 2
\* the most fragments an image name is built from
MaxFrags == 3

\* "A123"
N_A123 == <<"A", "1", "2", "3">>
\* "A123 "
N_A123_sp == <<"A", "1", "2", "3", " ">>
\* " A123"
N_sp_A123 == <<" ", "A", "1", "2", "3">>
\* "B200"
N_B200 == <<"B", "2", "0", "0">>
\* "RID0042"
N_RID0042 == <<"R", "I", "D", "0", "0", "4", "2">>
\* "Z999"
N_Z999 == <<"Z", "9", "9", "9">>
\* "B.2"
N_B_2 == <<"B", ".", "2">>
\* " Accession"
H_Accession == <<" ", "A", "c", "c", "e", "s", "s", "i", "o", "n">>
\* "NewAccession "
H_NewAccession == <<"N", "e", "w", "A", "c", "c", "e", "s", "s", "i", "o", "n", " ">>
\* "Record_ID"
H_Record_ID == <<"R", "e", "c", "o", "r", "d", "_", "I", "D">>
\* "  "
T_blank == <<" ", " ">>
\* "abc"
T_abc == <<"a", "b", "c">>
\* " 7 "
T_7 == <<" ", "7", " ">>
\* "DTI_a"
F_DTI_a == <<"D", "T", "I", "_", "a">>
\* "DTI_b"
F_DTI_b == <<"D", "T", "I", "_", "b">>
\* "T1"
F_T1 == <<"T", "1">>
\* "BOLD_run1"
F_BOLD_run1 == <<"B", "O", "L", "D", "_", "r", "u", "n", "1">>
\* "BOLD_x"
F_BOLD_x == <<"B", "O", "L", "D", "_", "x">>
\* "DTI_n"
F_DTI_n == <<"D", "T", "I", "_", "n">>
\* "COR_"
F_COR_ == <<"C", "O", "R", "_">>
\* "AXIAL_"
F_AXIAL_ == <<"A", "X", "I", "A", "L", "_">>

\* the sequences over S of length at most n
SeqsUpTo(S, n) == UNION {[1..k -> S] : k \in 0..n}

\* the sequences over S of length at most n that repeat no element
RECURSIVE DistinctSeqs(_, _)
DistinctSeqs(S, n) ==
    IF n = 0 THEN {<<>>}
    ELSE {<<>>} \cup UNION {{<<x>> \o r : r \in DistinctSeqs(S \ {x}, n - 1)} : x \in S}

RECURSIVE Flatten(_)
Flatten(ss) == IF ss = <<>> THEN <<>> ELSE ss[1] \o Flatten(Tail(ss))

\* A table is laid out by its headers as the file spells them, each naming
\* the field of a row it shows.
LayoutFull ==
    <<[raw |-> H_Accession, field |-> "acc"],
      [raw |-> H_NewAccession, field |-> "new"],
      [raw |-> H_Record_ID, field |-> "rid"]>>
\* the two columns the message of line 36 asks for
LayoutDocumented ==
    <<[raw |-> H_Accession, field |-> "acc"], [raw |-> H_Record_ID, field |-> "rid"]>>
LayoutNoAccession ==
    <<[raw |-> COL_NEWACCESSION, field |-> "new"], [raw |-> COL_RECORD_ID, field |-> "rid"]>>
LayoutNoRecordId ==
    <<[raw |-> COL_ACCESSION, field |-> "acc"], [raw |-> COL_NEWACCESSION, field |-> "new"]>>

Layouts == {LayoutFull, LayoutDocumented, LayoutNoAccession, LayoutNoRecordId}

Row(acc, new, rid) == [acc |-> StrCell(acc), new |-> StrCell(new), rid |-> rid]

RowA123 == Row(N_Z999, N_A123, IntCell(42))

Rows ==
    {RowA123,
     Row(N_B200, N_sp_A123, NaNCell),
     Row(N_B200, N_A123, StrCell(T_blank)),
     Row(N_A123, N_B200, StrCell(T_abc)),
     Row(N_B200, N_RID0042, IntCell(42)),
     Row(N_B200, N_A123_sp, IntCell(12345)),
     Row(N_A123, N_B200, IntCell(-5)),
     Row(N_A123, N_B200, StrCell(T_7))}

\* read_csv gives a column one dtype: record_id holds numbers (and NaN) or
\* str (and NaN), never both
WellTyped(rows) ==
    \A i, j \in 1..Len(rows) : ~(rows[i].rid.t = "int" /\ rows[j].rid.t = "str")

MakeTable(layout, rows) ==
    [columns |-> [i \in 1..Len(layout) |-> layout[i].raw],
     data |-> [k \in 1..Len(rows) |->
                  [i \in 1..Len(layout) |-> rows[k][layout[i].field]]]]

Tables ==
    {MakeTable(layout, rows) :
        layout \in Layouts, rows \in {r \in SeqsUpTo(Rows, MaxRows) : WellTyped(r)}}

PlainTable == MakeTable(LayoutFull, <<RowA123>>)

\* An image of a subject folder: its stem, what its sidecar holds (NoJson:
\* there is none) and whether its .bval and .bvec exist.
Image(stem, json, bval, bvec) == [stem |-> stem, json |-> json, bval |-> bval, bvec |-> bvec]

Original == ObjectJson(ListIT(<<S_ORIGINAL>>))

Entry(name, json) == [name |-> name, json |-> json]

EntriesOf(img) ==
    <<Entry(img.stem \o EXT_NII_GZ, NoJson)>>
    \o (IF img.json.kind = "none" THEN <<>> ELSE <<Entry(img.stem \o EXT_JSON, img.json)>>)
    \o (IF img.bval THEN <<Entry(img.stem \o EXT_BVAL, NoJson)>> ELSE <<>>)
    \o (IF img.bvec THEN <<Entry(img.stem \o EXT_BVEC, NoJson)>> ELSE <<>>)

Subject(name, imgs) ==
    [name |-> name, entries |-> Flatten([i \in 1..Len(imgs) |-> EntriesOf(imgs[i])])]

\* the ways to give k folders images of imgs, at most n together
RECURSIVE Allocations(_, _, _)
Allocations(imgs, k, n) ==
    IF k = 0 THEN {<<>>}
    ELSE UNION {{<<is>> \o rest : rest \in Allocations(imgs, k - 1, n - Len(is))} :
                is \in {s \in imgs : Len(s) <= n}}

MakeTree(names, alloc) == [i \in 1..Len(names) |-> Subject(names[i], alloc[i])]

PlainImage == Image(S_T2_FLAIR, Original, FALSE, FALSE)

ResolveNames == {N_A123, N_A123_sp, N_B200, N_RID0042, N_Z999}

ResolveTrees ==
    {[i \in 1..Len(ns) |-> Subject(ns[i], <<PlainImage>>)] :
        ns \in DistinctSeqs(ResolveNames, MaxSubjects)}

FileImages ==
    {Image(F_DTI_a, Original, TRUE, TRUE),
     Image(F_DTI_b, Original, TRUE, FALSE),
     Image(S_DTI \o S__ \o S_TOPUP, Original, TRUE, TRUE),
     Image(S_SWI, Original, FALSE, FALSE),
     Image(F_T1, NoJson, FALSE, FALSE),
     Image(F_BOLD_run1, InvalidJson, FALSE, FALSE),
     Image(F_BOLD_x, OtherJson, FALSE, FALSE),
     Image(F_DTI_n, ObjectJson(NullIT), FALSE, FALSE)}

FileNames == {N_A123, N_B_2, N_Z999}

FileImageSeqs == DistinctSeqs(FileImages, MaxFiles)

\* the fragments image names are built from, in the order they are put
Fragments ==
    <<S_DTI, S_BOLD, S_AXIAL_T2, F_AXIAL_, F_COR_, S_COR_T1_IR, S_COR_T2, S_T2_FLAIR,
      S_SAG_T1_MPRAGE, S_TOPUP, S_SWI>>

\* the names made of at most MaxFrags fragments
Stems ==
    {Flatten([i \in 1..Len(Fragments) |-> IF i \in pick THEN Fragments[i] ELSE <<>>]) :
        pick \in {q \in SUBSET (1..Len(Fragments)) : Cardinality(q) <= MaxFrags}}

ImageTypes ==
    {AbsentIT, StrIT(S_ORIGINAL),
     ListIT(<<>>), ListIT(<<S_ORIGINAL>>), ListIT(<<S_DERIVED>>), ListIT(<<S_DIS2D>>),
     ListIT(<<S_ORIGINAL, S_DIS2D>>), ListIT(<<S_DIS2D, S_ORIGINAL>>),
     ListIT(<<S_DERIVED, S_ADC>>), ListIT(<<S_DERIVED, S_TRACEW>>),
     ListIT(<<S_DERIVED, S_FA>>), ListIT(<<S_FA, S_DERIVED>>),
     ListIT(<<S_ADC>>), ListIT(<<S_ORIGINAL, S_DERIVED, S_ADC>>),
     ListIT(<<S_DERIVED, S_TRACEW, S_FA>>)}

ClassifyTrees ==
    {<<Subject(N_A123, <<Image(stem, ObjectJson(it), FALSE, FALSE)>>)>> :
        stem \in Stems, it \in ImageTypes}

-----------------------------------------------------------------------------
(* The specifications.                                                     *)

Start(df, t) ==
    /\ mapping_df = df
    /\ tree = t
    /\ pc = "load"
    /\ error = NoError
    /\ si = 0
    /\ fi = 0
    /\ accession = None
    /\ sub_label = None
    /\ category = None
    /\ bids_suffix = None
    /\ copied = <<>>
    /\ out = {}
    /\ stdout = <<>>

\* runs over many mapping tables, each folder holding one plain image
InitResolve == \E df \in Tables, t \in ResolveTrees : Start(df, t)

\* runs over many source trees, with one plain mapping table
InitFiles ==
    \E names \in DistinctSeqs(FileNames, MaxSubjects) :
        \E alloc \in Allocations(FileImageSeqs, Len(names), MaxFiles) :
            Start(PlainTable, MakeTree(names, alloc))

\* runs over many image names and ImageType values, one image each
InitClassify == \E t \in ClassifyTrees : Start(PlainTable, t)

Init == InitFiles

Spec == Init /\ [][Next]_vars

SpecResolve == InitResolve /\ [][Next]_vars

SpecClassify == InitClassify /\ [][Next]_vars

-----------------------------------------------------------------------------
(* What the claims speak of.                                               *)

\* the folder and the image the script is at
CurrentSubject == tree[si]
CurrentImage == nifti_files(tree[si])[fi]
CurrentSidecar == Content(tree[si], SidecarName(CurrentImage, EXT_JSON))

\* the image has a sidecar that holds a JSON object whose ImageType is
\* absent or a list of str
HasRecord ==
    /\ Exists(CurrentSubject, SidecarName(CurrentImage, EXT_JSON))
    /\ CurrentSidecar.kind = "object"
    /\ CurrentSidecar.it.t \in {"absent", "list"}

LastMsg == stdout[Len(stdout)]

-----------------------------------------------------------------------------
(* C1: the rule table of the specification, first match wins.              *)

Rule(has, hasnot, it, cat, suffix) ==
    [has |-> has, hasnot |-> hasnot, it |-> it, category |-> cat, suffix |-> suffix]

RuleTable ==
    <<Rule(<<S_BOLD>>, <<>>, <<S_ORIGINAL, S_DIS2D>>, S_func, S_task_rest_bold),
      Rule(<<S_AXIAL_T2>>, <<S_SWI>>, <<S_ORIGINAL>>, S_anat, S_acq_axial_T2w),
      Rule(<<S_COR_T1_IR>>, <<>>, <<S_ORIGINAL>>, S_anat, S_acq_hippocampalIR_T1w),
      Rule(<<S_COR_T2>>, <<>>, <<S_ORIGINAL>>, S_anat, S_acq_hippcor_T2w),
      Rule(<<S_T2_FLAIR>>, <<>>, <<S_ORIGINAL>>, S_anat, S_FLAIR),
      Rule(<<S_SAG_T1_MPRAGE>>, <<>>, <<S_ORIGINAL>>, S_anat, S_acq_mprage_T1w),
      Rule(<<S_DTI, S_TOPUP>>, <<>>, <<S_ORIGINAL>>, S_fmap, S_acq_topup_dwi),
      Rule(<<S_DTI>>, <<>>, <<S_ORIGINAL>>, S_dwi, S_dwi),
      Rule(<<S_DTI>>, <<>>, <<S_DERIVED, S_ADC>>, S_dwi, S_ADC),
      Rule(<<S_DTI>>, <<>>, <<S_DERIVED, S_TRACEW>>, S_dwi, S_trace),
      Rule(<<S_DTI>>, <<>>, <<S_DERIVED, S_FA>>, S_dwi, S_FA)>>

Satisfied(rule, fname, joined) ==
    /\ \A k \in 1..Len(rule.has) : Contains(fname, rule.has[k])
    /\ \A k \in 1..Len(rule.hasnot) : ~Contains(fname, rule.hasnot[k])
    /\ \A k \in 1..Len(rule.it) : Contains(joined, rule.it[k])

FirstMatch(fname, joined) ==
    LET hits == {k \in 1..Len(RuleTable) : Satisfied(RuleTable[k], fname, joined)}
    IN  IF hits = {} THEN <<None, None>>
        ELSE LET k == CHOOSE h \in hits : \A g \in hits : h <= g
             IN  <<RuleTable[k].category, RuleTable[k].suffix>>

TopupCase ==
    /\ Contains(CurrentImage, S_DTI)
    /\ Contains(CurrentImage, S_TOPUP)
    /\ \E k \in 1..Len(CurrentSidecar.it.v) : Contains(CurrentSidecar.it.v[k], S_ORIGINAL)

\* rules 1..6, which the table puts before the topup rule
EarlierRuleHolds ==
    \E k \in 1..6 :
        Satisfied(RuleTable[k], CurrentImage, Join(S__, CurrentSidecar.it.v))

\* C1 as stated: every image that has a metadata record is classified as the
\* first rule of the table, in the order 1..11, whose conditions on the file
\* name and on the underscore-joined ImageType all hold, and as (None, None)
\* when no rule holds; a name with "DTI" and "TOPUP" and an ImageType with
\* "ORIGINAL" always gives (fmap, acq-topup_dwi), never (dwi, dwi).
C1_TopupAlwaysFmap ==
    [][(pc = "file" /\ HasRecord) =>
          /\ pc' # "crashed"
          /\ <<category', bids_suffix'>> =
                 FirstMatch(CurrentImage, Join(S__, CurrentSidecar.it.v))
          /\ TopupCase => <<category', bids_suffix'>> = <<S_fmap, S_acq_topup_dwi>>]_vars

\* C1 amended: the classification is that of the first rule of the table
\* that holds, (None, None) when none does; a name with "DTI" and "TOPUP" and
\* an ImageType with "ORIGINAL" never gives (dwi, dwi), and gives
\* (fmap, acq-topup_dwi) unless one of the rules 1..6 holds for it too, whose
\* result it then gets.
C1_FirstMatchWins ==
    [][(pc = "file" /\ HasRecord) =>
          /\ pc' # "crashed"
          /\ <<category', bids_suffix'>> =
                 FirstMatch(CurrentImage, Join(S__, CurrentSidecar.it.v))
          /\ TopupCase => <<category', bids_suffix'>> # <<S_dwi, S_dwi>>
          /\ (TopupCase /\ ~EarlierRuleHolds) =>
                 <<category', bids_suffix'>> = <<S_fmap, S_acq_topup_dwi>>]_vars

\* a DTI/TOPUP image with ORIGINAL was classified, as fmap
C1_Witness ==
    /\ pc = "done"
    /\ Contains(nifti_files(tree[1])[1], S_DTI)
    /\ Contains(nifti_files(tree[1])[1], S_TOPUP)
    /\ category = S_fmap
    /\ bids_suffix = S_acq_topup_dwi

-----------------------------------------------------------------------------
(* Identity resolution, as the claims state it.                            *)

\* the folder name with surrounding whitespace removed
Trimmed == Strip(tree[si].name)

LookupCell(i) == mapping_df.data[i][ColumnIndex(mapping_df, LookupColumn)]
RecordIdCell(i) == mapping_df.data[i][ColumnIndex(mapping_df, COL_RECORD_ID)]

\* the rows whose accession, stringified and trimmed, is the trimmed folder name
MatchingRows ==
    {i \in 1..Len(mapping_df.data) : Strip(PyStr(LookupCell(i))) = Trimmed}

FirstMatching == CHOOSE i \in MatchingRows : \A j \in MatchingRows : i <= j

\* missing, NaN, or blank after trimming
Blank(cell) ==
    \/ cell.t = "nan"
    \/ cell.t = "str" /\ \A k \in 1..Len(cell.s) : cell.s[k] \in Whitespace

\* the integer a usable record_id stands for
IntegerOf(cell) == IF cell.t = "int" THEN cell.n ELSE ParseInt(cell.s)

\* the subject was resolved through a row with a usable record_id
ResolvedByRecordId ==
    /\ pc = "find"
    /\ MatchingRows # {}
    /\ ~Blank(RecordIdCell(FirstMatching))

AllDigits(s) == \A k \in 1..Len(s) : IsDigit(s[k])

\* label is "sub-RID" followed by exactly four digits that spell v
FourDigitLabel(label, v) ==
    /\ Len(label) = Len(PFX_SUB_RID) + 4
    /\ SubSeq(label, 1, Len(PFX_SUB_RID)) = PFX_SUB_RID
    /\ AllDigits(SubSeq(label, Len(PFX_SUB_RID) + 1, Len(label)))
    /\ DigitsValue(SubSeq(label, Len(PFX_SUB_RID) + 1, Len(label))) = v

\* C2 as stated: a usable record_id always gives "sub-RID" and exactly four
\* digits spelling its integer value, also above 9999 and below zero.
C2_AlwaysFourDigits ==
    ResolvedByRecordId =>
        FourDigitLabel(sub_label, IntegerOf(RecordIdCell(FirstMatching)))

\* C2 amended: a usable record_id v gives "sub-RID" followed by v zero-padded
\* to four digits when 0 <= v <= 9999; above 9999 all the digits of v follow,
\* more than four and none dropped; below zero a "-" follows and then the
\* digits of -v, zero-padded so that sign and digits are four characters.
C2_PaddedRecordId ==
    ResolvedByRecordId =>
        LET v == IntegerOf(RecordIdCell(FirstMatching))
            n == Len(PFX_SUB_RID)
            tail == SubSeq(sub_label, n + 1, Len(sub_label))
        IN  /\ SubSeq(sub_label, 1, n) = PFX_SUB_RID
            /\ (0 <= v /\ v <= 9999) => FourDigitLabel(sub_label, v)
            /\ v > 9999 => /\ AllDigits(tail)
                           /\ Len(tail) > 4
                           /\ tail[1] # "0"
                           /\ DigitsValue(tail) = v
            /\ v < 0 => /\ tail[1] = "-"
                        /\ AllDigits(Tail(tail))
                        /\ DigitsValue(Tail(tail)) = -v
                        /\ Len(tail) >= 4
                        /\ Len(tail) > 4 => tail[2] # "0"

\* the folder "A123 " was resolved through record_id 42
C2_Witness ==
    /\ ResolvedByRecordId
    /\ tree[si].name = N_A123_sp
    /\ RecordIdCell(FirstMatching) = IntCell(42)
    /\ sub_label = PFX_SUB_RID \o <<"0", "0", "4", "2">>

\* no row matches, or the first matching row has no usable record_id
FallbackCase == MatchingRows = {} \/ Blank(RecordIdCell(FirstMatching))

\* C3 as stated: folder name and accession are compared trimmed, and the
\* label is "sub-<trimmed folder name>" exactly when no row matches or the
\* matched row's record_id is missing, NaN or blank.
C3_FallbackExactly ==
    pc = "find" => (sub_label = PFX_SUB \o Trimmed <=> FallbackCase)

\* C3 amended: folder name and accession are compared trimmed, and the label
\* is "sub-<trimmed folder name>" exactly when no row matches, or the matched
\* row's record_id is missing, NaN or blank, or the trimmed folder name is
\* itself "RID" followed by the padded record_id of the matched row; the
\* fallback is announced (lines 88, 93) exactly in the first two cases.
C3_FallbackOrSameName ==
    pc = "find" =>
        /\ sub_label = PFX_SUB \o Trimmed <=>
               \/ FallbackCase
               \/ PFX_SUB \o Trimmed =
                      PFX_SUB_RID \o Zfill(IntStr(IntegerOf(RecordIdCell(FirstMatching))), PadWidth)
        /\ LastMsg \in {Msg(88, Trimmed), Msg(93, Trimmed)} <=> FallbackCase

\* the folder "A123 " matched the row whose accession is " A123", whose
\* record_id is NaN, and got the label "sub-A123"
C3_Witness ==
    /\ pc = "find"
    /\ tree[si].name = N_A123_sp
    /\ MatchingRows # {}
    /\ LookupCell(FirstMatching) = StrCell(N_sp_A123)
    /\ sub_label = PFX_SUB \o N_A123

\* a row matches whose record_id is a non-blank str that int() rejects
NonNumericCase ==
    /\ si \in 1..Len(tree)
    /\ HasColumn(mapping_df, LookupColumn)
    /\ MatchingRows # {}
    /\ LET rid == RecordIdCell(FirstMatching)
       IN  rid.t = "str" /\ ~Blank(rid) /\ ~IsIntLiteral(rid.s)

\* C4: a matched record_id that is no integer does not end the run; the
\* subject gets the label "sub-<trimmed folder name>" and the run goes on to
\* its files and to the later subjects.
C4_NonNumericFallsBack ==
    /\ error # Raised("ValueError", 95)
    /\ (pc \in {"subject", "find", "file"} /\ NonNumericCase) =>
           /\ pc # "crashed"
           /\ pc \in {"find", "file"} => sub_label = PFX_SUB \o Trimmed

\* the table, after line 33, has the column line 84 looks up and record_id
LookupColumnsPresent ==
    HasColumn(mapping_df, LookupColumn) /\ HasColumn(mapping_df, COL_RECORD_ID)

\* C5: a table without the looked-up accession column or without record_id
\* stops the run with the configuration error of line 36 before any folder
\* is visited or file copied, and a table that passes the check of line 35
\* never fails later for a missing column.
C5_MissingColumnIsConfigError ==
    /\ (pc # "load" /\ ~LookupColumnsPresent) =>
           /\ pc = "crashed"
           /\ error = Raised("ValueError", 36)
           /\ si = 0
           /\ out = {}
    /\ error.type # "KeyError"

\* C9: when several rows match, the label comes from the first of them in
\* table order only: the fallback label if its record_id is blank or NaN,
\* whatever the later rows hold, and otherwise "sub-RID" with its padded
\* record_id; resolving a subject leaves the table as it was.
C9_FirstRowOnly ==
    /\ [](pc = "find" /\ Cardinality(MatchingRows) >= 2 =>
            IF Blank(RecordIdCell(FirstMatching))
            THEN sub_label = PFX_SUB \o Trimmed
            ELSE sub_label = PFX_SUB_RID \o
                     Zfill(IntStr(IntegerOf(RecordIdCell(FirstMatching))), PadWidth))
    /\ [][pc = "subject" => mapping_df' = mapping_df]_vars

\* two rows match, the first without a usable record_id, a later one with
\* one, and the subject has the fallback label
C9_Witness ==
    /\ pc = "find"
    /\ Cardinality(MatchingRows) >= 2
    /\ Blank(RecordIdCell(FirstMatching))
    /\ \E j \in MatchingRows : ~Blank(RecordIdCell(j))
    /\ sub_label = PFX_SUB \o Trimmed

-----------------------------------------------------------------------------
(* The file loop, as the claims state it.                                  *)

\* the image name without ".nii.gz"
StemOf(nii) == SubSeq(nii, 1, Len(nii) - Len(EXT_NII_GZ))

\* the images of the tree that have a readable sidecar and match a rule
Eligible ==
    {<<i, k>> \in (1..Len(tree)) \X (1..MaxFiles + 1) :
        /\ k <= Len(nifti_files(tree[i]))
        /\ LET nii == nifti_files(tree[i])[k]
               side == StemOf(nii) \o EXT_JSON
           IN  /\ Exists(tree[i], side)
               /\ Content(tree[i], side).kind = "object"
               /\ Content(tree[i], side).it.t \in {"absent", "list"}
               /\ FirstMatch(nii, Join(S__, Content(tree[i], side).it.v)) # <<None, None>>}

CopiedMessages == {j \in 1..Len(stdout) : stdout[j].line = 145}

\* C6: a sidecar that is missing, unreadable, unparseable or of unexpected
\* content, an image that matches no rule and a folder without images skip
\* only that unit: the run never ends in the file loop, and when it completes
\* every image with a readable sidecar and a matching rule has been copied.
C6_ProblemsAreIsolated ==
    /\ ~(pc = "crashed" /\ error.line = 120)
    /\ pc = "done" => Cardinality(CopiedMessages) = Cardinality(Eligible)

\* C7: the image of every matched file is copied to
\* <SubjectLabel>/ses-<session>/<category>/<SubjectLabel>_ses-<session>_<suffix>.nii.gz
\* under the output root, whatever the subject label and the session label.
C7_DestinationPath ==
    [][(pc = "file" /\ pc' # "crashed") =>
          \A k \in 1..Len(copied') :
              EndsWith(copied'[k].src.file, EXT_NII_GZ) =>
                  copied'[k].dst =
                      <<sub_label, PFX_SES \o SESSION_LABEL, category',
                        sub_label \o S__ses_ \o SESSION_LABEL \o S__ \o bids_suffix'
                            \o EXT_NII_GZ>>]_vars

\* the destination beside dst whose name ends in ext instead of ".nii.gz"
Beside(dst, ext) ==
    [dst EXCEPT ![Len(dst)] = StemOf(dst[Len(dst)]) \o ext]

\* C8: the .bval and .bvec of an image are copied, both and beside the copy
\* of the image, when it is classified with the suffix "dwi" and both exist
\* in its folder; otherwise, also for "acq-topup_dwi" and when only one of
\* them exists, neither is copied.
C8_GradientTablesAllOrNothing ==
    [][(pc = "file" /\ HasRecord) =>
          LET nii == CurrentImage
              bval == StemOf(nii) \o EXT_BVAL
              bvec == StemOf(nii) \o EXT_BVEC
              sources == {copied'[k].src.file : k \in 1..Len(copied')}
          IN  IF /\ bids_suffix' = S_dwi
                 /\ Exists(CurrentSubject, bval)
                 /\ Exists(CurrentSubject, bvec)
              THEN \E a, b, c \in 1..Len(copied') :
                      /\ copied'[a].src.file = nii
                      /\ copied'[b].src.file = bval
                      /\ copied'[b].dst = Beside(copied'[a].dst, EXT_BVAL)
                      /\ copied'[c].src.file = bvec
                      /\ copied'[c].dst = Beside(copied'[a].dst, EXT_BVEC)
              ELSE bval \notin sources /\ bvec \notin sources]_vars

\* a "dwi" image was copied with its .bval and its .bvec
C8_Witness ==
    /\ bids_suffix = S_dwi
    /\ \E b, c \in 1..Len(copied) :
          /\ EndsWith(copied[b].src.file, EXT_BVAL)
          /\ EndsWith(copied[c].src.file, EXT_BVEC)
          /\ copied[b] \in out
          /\ copied[c] \in out

Extensions == {EXT_NII_GZ, EXT_JSON, EXT_BVAL, EXT_BVEC}

\* a destination path without its extension
BaseOf(dst) ==
    LET name == dst[Len(dst)]
        ext == CHOOSE e \in Extensions : EndsWith(name, e)
    IN  [dst EXCEPT ![Len(dst)] = SubSeq(name, 1, Len(name) - Len(ext))]

\* C10: the files stored at one destination base all come from the same
\* source image, also after a later image overwrote an earlier one.
C10_OneSourcePerBase ==
    \A f, g \in out :
        BaseOf(f.dst) = BaseOf(g.dst) =>
            f.src.dir = g.src.dir /\ f.src.image = g.src.image

=============================================================================
